---- MODULE Spec2Model ----
(***************************************************************************)
(* A model of the smart-display data pipeline of jwong924/e-Paper:         *)
(*   modules/weather.py, modules/air_quality.py  (fetch + normalisation)   *)
(*   modules/location_coordinates.py              (geocoding + file cache)  *)
(*   hello_mock.py                                (SmartDisplayManager)     *)
(*                                                                         *)
(* Conventions.  A Python value that may be None is a sequence of length   *)
(* 0 (None) or 1.  An ISO-8601 timestamp string is a record [hh, mm];      *)
(* datetime.fromisoformat turns it into minutes since midnight.  A Python  *)
(* string that is concatenated is a sequence of one-character strings.     *)
(***************************************************************************)
EXTENDS Integers, Sequences, FiniteSets, TLC

VARIABLES
    \* ---- normaliser (format_weather_data of weather.py / air_quality.py)
    nPayload,     \* the raw payload handed to format_weather_data
    nKind,        \* "none" | "weather" | "air_quality": which module ran
    nRes,         \* "none" | "ok" | "TypeError": how the call ended
    nHourly,      \* formatted_hourly_data, when nRes = "ok"
    nExamined,    \* number of hourly entries parsed by the loop
    \* ---- create_cache_key (location_coordinates.py), applied on its own
    kParams,      \* the params dict handed to create_cache_key
    kRes,         \* None before the call, then Some([exc, key])
    \* ---- location resolver (location_coordinates.py) and its cache file
    locFile,      \* location_coordinates_cache.json: [st, data]
    lCall,        \* None, or Some(record of the last get_location_data call)
    resolved,     \* history: cache key -> result of its first successful resolve
    ioLogged,     \* history: a cache-file read or write error has been logged
    \* ---- weather pipeline (weather.py main) and its two cache files
    rawFile,      \* weather_cache_raw.json: [st, data]
    fmtFile,      \* weather_cache_formatted.json: [st, data]
    rawFresh,     \* history: the raw cache was written less than
                  \* config.CACHE_DURATION ago
    mRun,         \* None, or Some(record of the last run of main)
    \* ---- SmartDisplayManager (hello_mock.py)
    now,                  \* the wall clock, in seconds
    weather_api_interval, \* config.weather_api_interval, in seconds
    weather_cache,        \* self.weather_cache: None or Some(WeatherData)
    last_weather_update,  \* self.last_weather_update: None or Some(time)
    dCall,        \* None, or Some(record of the last call on the manager)
    scheduler     \* run_scheduler: "idle" before it is called, "running" in
                  \* its loop, "crashed" once an exception has left it,
                  \* "interrupted" after KeyboardInterrupt
VARIABLES
    \* ---- one write of a cache file, token by token
    wFile,        \* the cache file: None when absent, else Some(tokens)
    wPrev,        \* the file as it was when the write in progress began
    wNew,         \* the tokens json.dump is writing
    wPc,          \* "idle", "writing" (file open), "killed" (process
                  \* interrupted with the file open)
    \* ---- the fetch operations of weather.py and air_quality.py
    fCall,        \* None, or Some(record of the last fetch-level call)
    \* ---- WeatherAPI's helper functions (hello_mock.py), applied on their own
    aIn,          \* the argument drawn for one of the helpers
    aOut          \* None before the call, then Some([exc, ret])

normVars == <<nPayload, nKind, nRes, nHourly, nExamined>>

keyVars == <<kParams, kRes>>

locVars == <<locFile, lCall, resolved, ioLogged>>

pipeVars == <<rawFile, fmtFile, rawFresh, mRun>>

dispVars ==
    <<now, weather_api_interval, weather_cache, last_weather_update, dCall,
      scheduler>>

writeVars == <<wFile, wPrev, wNew, wPc>>

fetchVars == <<fCall>>

apiVars == <<aIn, aOut>>

vars ==
    <<normVars, keyVars, locVars, pipeVars, dispVars, writeVars, fetchVars,
      apiVars>>

(***************************************************************************)
(* Bounds of the model.                                                    *)
(***************************************************************************)
\* longest hourly time array of a generated payload
MaxHourlyLen == 5

\* the wall clock stops at MaxNow seconds
MaxNow == 7

\* the largest weather_api_interval a config.json sets, in seconds
MaxInterval == 3

\* longest document, in tokens, that json.dump writes
MaxDocLen == 3

\* wind directions handed to _get_wind_direction: -MaxDegrees..MaxDegrees
MaxDegrees == 720

\* weather codes handed to _get_weather_condition: -1..MaxCode
MaxCode == 100

\* longest daily time array of a payload
MaxDailyLen == 4

(***************************************************************************)
(* Generic helpers.                                                        *)
(***************************************************************************)
None == <<>>

Some(x) == <<x>>

SeqsUpTo(S, n) == UNION {[1..k -> S] : k \in 0..n}

Stamp(h, m) == [hh |-> h, mm |-> m]

(***************************************************************************)
(* Normalisation: the hourly loop.                                         *)
(***************************************************************************)
\* datetime.fromisoformat on a same-day "YYYY-MM-DDTHH:MM" string
fromisoformat(datetime_str) == datetime_str.hh * 60 + datetime_str.mm

\* timedelta(minutes=25) of air_quality.py
GraceMinutes == 25

\* the literal 3 of "if i > 3: break" in air_quality.py
CapIndex == 3

\* hour_data: the string copied to "datetime", and the index at which every
\* measurement series of the payload is read
hour_data(datetime_str, index) == [datetime |-> datetime_str, index |-> index]

\* air_quality.py: "if hourly_dt > current_dt + timedelta(minutes=25)"
InWindow(hourly_dt, current_dt) == hourly_dt > current_dt + GraceMinutes

\* the break taken after two entries instead of four
CapReachedAtTwo(i) == i > 1

\* air_quality.py: "if i > 3: break" at the top of the loop body
CapReached(i) == i > CapIndex

\* air_quality.py lines 112-138: the loop over enumerate(hourly_data['time']).
\* acc = [data |-> formatted_hourly_data, examined |-> entries parsed so far]
RECURSIVE air_quality_hourly_loop(_, _, _, _, _)
air_quality_hourly_loop(times, current_dt, index, i, acc) ==
    IF index > Len(times) THEN acc
    ELSE IF CapReached(i) THEN acc
    ELSE LET hourly_dt == fromisoformat(times[index]) IN
         IF InWindow(hourly_dt, current_dt)
         THEN air_quality_hourly_loop(times, current_dt, index + 1, i + 1,
                  [data |-> Append(acc.data, hour_data(times[index], index)),
                   examined |-> acc.examined + 1])
         ELSE air_quality_hourly_loop(times, current_dt, index + 1, i,
                  [acc EXCEPT !.examined = @ + 1])

\* weather.py lines 119-140: the loop appends every entry; "i = 0" is set
\* and never used, there is no window test and no break.
RECURSIVE weather_hourly_loop(_, _, _)
weather_hourly_loop(times, index, acc) ==
    IF index > Len(times) THEN acc
    ELSE weather_hourly_loop(times, index + 1,
             [data |-> Append(acc.data, hour_data(times[index], index)),
              examined |-> acc.examined + 1])

EmptyAcc == [data |-> <<>>, examined |-> 0]

(***************************************************************************)
(* Payloads.  The weather module reads the current point under the key     *)
(* 'current', the air-quality module under 'current_weather'; either may   *)
(* be missing from a payload, and datetime.fromisoformat(None) raises      *)
(* TypeError.                                                              *)
(***************************************************************************)
HourStamps == {Stamp(12, 0), Stamp(12, 25), Stamp(12, 30), Stamp(13, 0)}

CurStamps == {Stamp(12, 0), Stamp(12, 30)}

OptCur == {None} \cup {Some(s) : s \in CurStamps}

\* the payload of the 12:00 / [12:00,12:10,12:30,13:00,14:00] scenario
ScenarioTimes ==
    <<Stamp(12, 0), Stamp(12, 10), Stamp(12, 30), Stamp(13, 0), Stamp(14, 0)>>

ScenarioPayload ==
    [current |-> Some(Stamp(12, 0)), current_weather |-> Some(Stamp(12, 0)),
     hourly_time |-> ScenarioTimes]

Payloads ==
    [current : OptCur, current_weather : OptCur,
     hourly_time : SeqsUpTo(HourStamps, MaxHourlyLen)]
    \cup {ScenarioPayload}

\* weather.py format_weather_data (lines 95-190), hourly part
weather_format_weather_data(weather_data) ==
    IF weather_data.current = None
    THEN [res |-> "TypeError", hourly |-> <<>>, examined |-> 0]
    ELSE LET r == weather_hourly_loop(weather_data.hourly_time, 1, EmptyAcc)
         IN  [res |-> "ok", hourly |-> r.data, examined |-> r.examined]

\* air_quality.py format_weather_data (lines 89-190), hourly part
air_quality_format_weather_data(weather_data) ==
    IF weather_data.current_weather = None
    THEN [res |-> "TypeError", hourly |-> <<>>, examined |-> 0]
    ELSE LET current_dt == fromisoformat(weather_data.current_weather[1])
             r == air_quality_hourly_loop(weather_data.hourly_time,
                                          current_dt, 1, 0, EmptyAcc)
         IN  [res |-> "ok", hourly |-> r.data, examined |-> r.examined]


(***************************************************************************)
(* location_coordinates.py: create_cache_key.                              *)
(* A params dict is a function from the keys it holds to strings.          *)
(***************************************************************************)
US == <<"U", "S">>

GB == <<"G", "B">>

P80204 == <<"8", "0", "2", "0", "4">>

Denver == <<"D", "e", "n", "v", "e", "r">>

EmptyStr == <<>>

\* dict.get(key, default)
DictGet(d, key, default) == IF key \in DOMAIN d THEN d[key] ELSE default

\* d.update(e): the keys of e override those of d
DictUpdate(d, e) ==
    [k \in DOMAIN d \cup DOMAIN e |-> IF k \in DOMAIN e THEN e[k] ELSE d[k]]

\* the dict with the keys ks of d only
Restrict(d, ks) == [k \in DOMAIN d \cap ks |-> d[k]]

\* f"{country}_{location}"
KeyOf(country, location) == country \o <<"_">> \o location

\* create_cache_key with the two branches swapped: the city wins
create_cache_key_city_first(params) ==
    LET country == DictGet(params, "country", EmptyStr) IN
    IF "city" \in DOMAIN params
    THEN [exc |-> "none", key |-> KeyOf(country, params["city"])]
    ELSE IF "postalcode" \in DOMAIN params
    THEN [exc |-> "none", key |-> KeyOf(country, params["postalcode"])]
    ELSE [exc |-> "ValueError", key |-> EmptyStr]

\* location_coordinates.py lines 44-58
create_cache_key(params) ==
    LET country == DictGet(params, "country", EmptyStr) IN
    IF "postalcode" \in DOMAIN params
    THEN [exc |-> "none", key |-> KeyOf(country, params["postalcode"])]
    ELSE IF "city" \in DOMAIN params
    THEN [exc |-> "none", key |-> KeyOf(country, params["city"])]
    ELSE [exc |-> "ValueError", key |-> EmptyStr]

\* the params dicts create_cache_key is applied to: each key absent or
\* holding one of a few strings (the empty string included)
OptionalKey(name, values) == {<<>>} \cup {name :> v : v \in values}

KeyParams ==
    {c @@ p @@ t @@ f @@ x :
        c \in OptionalKey("country", {US, GB, EmptyStr}),
        p \in OptionalKey("postalcode", {P80204, EmptyStr}),
        t \in OptionalKey("city", {Denver, EmptyStr}),
        f \in OptionalKey("format", {<<"j">>}),
        x \in OptionalKey("state", {<<"C", "O">>})}


(***************************************************************************)
(* Files.  A file is absent, holds a complete JSON document, or holds a    *)
(* truncated one that json.load rejects.  open(path, 'w') truncates the    *)
(* file before json.dump writes, so a write ends in one of three ways.     *)
(***************************************************************************)
FileAbsent == [st |-> "absent", data |-> <<>>]

FileCorrupt == [st |-> "corrupt", data |-> <<>>]

FileOk(document) == [st |-> "ok", data |-> document]

\* how a write can end: it completes; open() raises IOError and the file is
\* untouched; json.dump raises IOError after open() truncated the file
WriteOutcomes == {"ok", "open_fails", "dump_fails"}

\* how a read of an existing file can end
ReadOutcomes == {"ok", "IOError"}

\* "with open(path, 'w') as f: json.dump(document, f)"
WriteFile(file, document, w) ==
    IF w = "ok" THEN FileOk(document)
    ELSE IF w = "open_fails" THEN file
    ELSE FileCorrupt

\* a save_cache that logs and never reaches the file
save_cache_dropped(file, cache_data, w) ==
    [file |-> file, logged |-> (w # "ok")]

\* a load_cache that hands on whatever the file held, readable or not
load_cache_trusting(file, r, w) ==
    [cache |-> file.data, file |-> file, logged |-> FALSE]

\* a save_cache whose document reaches the file even when the write fails
save_cache_forced(file, cache_data, w) ==
    [file |-> FileOk(cache_data), logged |-> (w # "ok")]

\* location_coordinates.py lines 35-42: IOError is logged and swallowed
save_cache(file, cache_data, w) ==
    [file |-> WriteFile(file, cache_data, w), logged |-> (w # "ok")]

\* location_coordinates.py lines 17-33.  r: outcome of the read when the file
\* exists; w: outcome of the write that creates the file when it does not
load_cache(file, r, w) ==
    IF file.st # "absent"
    THEN IF r = "ok" /\ file.st = "ok"
         THEN [cache |-> file.data, file |-> file, logged |-> FALSE]
         ELSE [cache |-> <<>>, file |-> file, logged |-> TRUE]
    ELSE LET saved == save_cache(file, <<>>, w)
         IN  [cache |-> <<>>, file |-> saved.file, logged |-> saved.logged]

(***************************************************************************)
(* location_coordinates.py: get_location_data.                             *)
(***************************************************************************)
\* geocoding results (lat, lon, display_name); one has an empty latitude
LocDenver == [lat |-> <<"3", "9">>, lon |-> <<"-", "1", "0", "5">>, display_name |-> "Denver"]

LocOther == [lat |-> <<"4", "0">>, lon |-> <<"-", "1", "0", "4">>, display_name |-> "Denver County"]

LocNoLat == [lat |-> <<>>, lon |-> <<"-", "1", "0", "5">>, display_name |-> "Nowhere"]

\* what the geocoding request can end in: an exception raised by
\* requests.get / raise_for_status / response.json, or the parsed array,
\* which holds at most one result because the request says limit=1
GeoOutcomes(results) ==
    {[exc |-> "RequestException", data |-> <<>>],
     [exc |-> "JSONDecodeError", data |-> <<>>],
     [exc |-> "none", data |-> <<>>]}
    \cup {[exc |-> "none", data |-> <<r>>] : r \in results}

\* the descriptors a caller passes (or config.LOCATION_PARAMS holds)
DescPostal == ("country" :> US) @@ ("postalcode" :> P80204)

DescCity == ("country" :> US) @@ ("city" :> Denver)

DescBoth == ("country" :> US) @@ ("postalcode" :> P80204) @@ ("city" :> Denver)

DescNeither == ("country" :> US)

Descriptors == {DescPostal, DescCity, DescBoth, DescNeither}

\* "params.update({'format': 'jsonv2', 'limit': 1})"
ApiParams == ("format" :> <<"j", "s", "o", "n", "v", "2">>) @@ ("limit" :> <<"1">>)

\* "cache[cache_key] = data" forgetting the other entries
CacheOnlyEntry(cache, cache_key, data) == (cache_key :> data)

\* "cache[cache_key] = data"
CacheWithEntry(cache, cache_key, data) == DictUpdate(cache, cache_key :> data)

\* the result of a get_location_data call: the exception it raised ("none"
\* when it returned), the value returned (None or Some(result)), the file
\* afterwards, the number of geocoding requests issued, the cache key, and
\* whether a cache-file error was logged
LocReturn(exc, ret, file, requests, key, logged) ==
    [exc |-> exc, ret |-> ret, file |-> file, requests |-> requests,
     key |-> key, logged |-> logged]

\* a get_location_data that stores the geocoder's answer before looking at
\* it, the empty answer included
get_location_data_storing_empty(file, location_params, config_params, env) ==
    IF location_params = None /\ config_params = None
    THEN LocReturn("AttributeError", None, file, 0, None, FALSE)
    ELSE
    LET params == DictUpdate(IF location_params = None THEN config_params[1]
                             ELSE location_params[1], ApiParams)
        loaded == load_cache(file, env.read, env.write)
        cache == loaded.cache
        k == create_cache_key(params)
    IN  IF k.exc # "none"
        THEN LocReturn(k.exc, None, loaded.file, 0, None, loaded.logged)
        ELSE IF k.key \in DOMAIN cache
        THEN LocReturn("none",
                       IF cache[k.key] = <<>> THEN None
                       ELSE Some(cache[k.key][1]),
                       loaded.file, 0, Some(k.key), loaded.logged)
        ELSE IF env.geo.exc # "none"
        THEN LocReturn(env.geo.exc, None, loaded.file, 1, Some(k.key),
                       loaded.logged)
        ELSE LET saved == save_cache(loaded.file,
                              CacheWithEntry(cache, k.key, env.geo.data),
                              env.write)
             IN  LocReturn("none",
                           IF env.geo.data = <<>> THEN None
                           ELSE Some(env.geo.data[1]),
                           saved.file, 1, Some(k.key),
                           loaded.logged \/ saved.logged)

\* location_coordinates.py lines 60-102.  location_params is None or
\* Some(dict); config_params is config.LOCATION_PARAMS, None when the config
\* module does not define it; env holds what the environment answers
get_location_data(file, location_params, config_params, env) ==
    IF location_params = None /\ config_params = None
    THEN LocReturn("AttributeError", None, file, 0, None, FALSE)
    ELSE
    LET params == DictUpdate(IF location_params = None THEN config_params[1]
                             ELSE location_params[1], ApiParams)
        loaded == load_cache(file, env.read, env.write)
        cache == loaded.cache
        k == create_cache_key(params)
    IN  IF k.exc # "none"
        THEN LocReturn(k.exc, None, loaded.file, 0, None, loaded.logged)
        ELSE IF k.key \in DOMAIN cache
        THEN LocReturn("none", Some(cache[k.key][1]), loaded.file, 0,
                       Some(k.key), loaded.logged)
        ELSE IF env.geo.exc # "none"
        THEN LocReturn(env.geo.exc, None, loaded.file, 1, Some(k.key),
                       loaded.logged)
        ELSE IF env.geo.data = <<>>
        THEN LocReturn("none", None, loaded.file, 1, Some(k.key),
                       loaded.logged)
        ELSE LET saved == save_cache(loaded.file,
                              CacheWithEntry(cache, k.key, env.geo.data),
                              env.write)
             IN  LocReturn("none", Some(env.geo.data[1]), saved.file, 1,
                           Some(k.key), loaded.logged \/ saved.logged)

LocEnvs(results) ==
    [read : ReadOutcomes, write : WriteOutcomes, geo : GeoOutcomes(results)]


(***************************************************************************)
(* weather.py: save_weather_cache, get_weather_data, main.                 *)
(***************************************************************************)
\* weather.py lines 22-29: IOError is logged and swallowed
save_weather_cache(file, weather_data, w) == WriteFile(file, weather_data, w)

\* Python truthiness of a string
Truthy(str) == str # <<>>

\* what the weather request can end in: requests.get / raise_for_status
\* raises (connection error, timeout, HTTP 500), response.json raises, or the
\* body parses to a payload
PayloadGood ==
    [current |-> Some(Stamp(12, 0)), current_weather |-> None,
     hourly_time |-> <<Stamp(12, 0), Stamp(13, 0)>>]

PayloadNoCurrent ==
    [current |-> None, current_weather |-> None,
     hourly_time |-> <<Stamp(13, 0)>>]

WxOutcomes ==
    {[exc |-> "RequestException", body |-> None],
     [exc |-> "JSONDecodeError", body |-> None],
     [exc |-> "none", body |-> Some(PayloadGood)],
     [exc |-> "none", body |-> Some(PayloadNoCurrent)]}

\* weather.py lines 46-59: the unit selectors among the request parameters
weather_params ==
    [temperature_unit |-> "fahrenheit", wind_speed_unit |-> "mph",
     precipitation_unit |-> "inch"]

\* weather.py lines 76-80: the parsed body with the location name and the
\* request's unit selectors added (each unit line ends in a comma, so the
\* value stored is a one-element tuple)
WithRequestContext(body, location_data) ==
    [current |-> body.current, current_weather |-> body.current_weather,
     hourly_time |-> body.hourly_time,
     location_name |-> location_data.display_name,
     temperature_unit |-> <<weather_params.temperature_unit>>,
     wind_speed_unit |-> <<weather_params.wind_speed_unit>>,
     precipitation_unit |-> <<weather_params.precipitation_unit>>]

\* a get_weather_data that tries the request a second time when it failed
WxReturnRetried(exc, data, raw, requests) ==
    [exc |-> exc, data |-> data, raw |-> raw,
     requests |-> IF data = None /\ requests = 1 THEN 2 ELSE requests]

\* the result of a get_weather_data call
WxReturn(exc, data, raw, requests) ==
    [exc |-> exc, data |-> data, raw |-> raw, requests |-> requests]

\* weather.py lines 32-93.  location_data is None or Some(result)
get_weather_data(location_data, raw, wx, w) ==
    IF location_data = None THEN WxReturn("AttributeError", None, raw, 0)
    ELSE
    LET lat == location_data[1].lat
        lon == location_data[1].lon
    IN  IF ~Truthy(lat) /\ Truthy(lon)
        THEN WxReturn("ValueError", None, raw, 0)
        ELSE IF ~Truthy(lat) \/ ~Truthy(lon)
        THEN WxReturn("ValueError", None, raw, 0)
        ELSE IF wx.exc # "none"
        THEN WxReturn(wx.exc, None, raw, 1)
        ELSE LET weather_data == WithRequestContext(wx.body[1], location_data[1])
             IN  WxReturn("none", Some(weather_data),
                          save_weather_cache(raw, weather_data, w), 1)

\* a formatted_weather_data that reports the provider's default units
formatted_weather_data_default_units(weather_data, hourly) ==
    [location |-> weather_data.location_name,
     temperature_unit |-> "celsius",
     wind_speed_unit |-> "kmh",
     precipitation_unit |-> "mm",
     hourly |-> hourly]

\* weather.py lines 166-188: formatted_weather_data
formatted_weather_data(weather_data, hourly) ==
    [location |-> weather_data.location_name,
     temperature_unit |-> weather_data.temperature_unit[1],
     wind_speed_unit |-> weather_data.wind_speed_unit[1],
     precipitation_unit |-> weather_data.precipitation_unit[1],
     hourly |-> hourly]

\* the record of a run of main: the exception its "except Exception" caught
\* ("none" when none was raised), the step the run ended in, the requests it
\* issued, the formatted data it produced (None when it produced none), and
\* the three files afterwards
MainReturn(exc, stage, geo, wx, result, loc, raw, fmt) ==
    [exc |-> exc, stage |-> stage, geo_requests |-> geo, wx_requests |-> wx,
     result |-> result, loc |-> loc, raw |-> raw, fmt |-> fmt]

\* a main that, when resolving raises, carries on with a built-in location
main_with_default_location(loc, raw, fmt, config_params, env) ==
    LET l == get_location_data(loc, None, config_params, env.loc)
        g == get_weather_data(IF l.exc # "none" THEN Some(LocDenver) ELSE l.ret,
                              raw, env.wx, env.write)
    IN  IF g.exc # "none"
        THEN MainReturn(IF l.exc # "none" THEN l.exc ELSE g.exc,
                        IF l.exc # "none" THEN "resolve" ELSE "fetch",
                        l.requests, g.requests, None, l.file, g.raw, fmt)
        ELSE
        LET f == weather_format_weather_data(g.data[1]) IN
        IF f.res # "ok"
        THEN MainReturn(IF l.exc # "none" THEN l.exc ELSE f.res,
                        IF l.exc # "none" THEN "resolve" ELSE "normalize",
                        l.requests, g.requests, None, l.file, g.raw, fmt)
        ELSE
        LET formatted == formatted_weather_data(g.data[1], f.hourly) IN
        MainReturn(l.exc, IF l.exc # "none" THEN "resolve" ELSE "done",
                   l.requests, g.requests, Some(formatted), l.file, g.raw,
                   save_weather_cache(fmt, formatted, env.write))

\* weather.py lines 192-217
main(loc, raw, fmt, config_params, env) ==
    LET l == get_location_data(loc, None, config_params, env.loc) IN
    IF l.exc # "none"
    THEN MainReturn(l.exc, "resolve", l.requests, 0, None, l.file, raw, fmt)
    ELSE
    LET g == get_weather_data(l.ret, raw, env.wx, env.write) IN
    IF g.exc # "none"
    THEN MainReturn(g.exc, "fetch", l.requests, g.requests, None,
                    l.file, g.raw, fmt)
    ELSE
    LET f == weather_format_weather_data(g.data[1]) IN
    IF f.res # "ok"
    THEN MainReturn(f.res, "normalize", l.requests, g.requests, None,
                    l.file, g.raw, fmt)
    ELSE
    LET formatted == formatted_weather_data(g.data[1], f.hourly) IN
    MainReturn("none", "done", l.requests, g.requests, Some(formatted),
               l.file, g.raw, save_weather_cache(fmt, formatted, env.write))

\* config.LOCATION_PARAMS: not defined by config.py as shipped (None), or a
\* descriptor
Configs == {None, Some(DescPostal), Some(DescNeither)}

PipeEnvs ==
    [loc : LocEnvs({LocDenver, LocNoLat}), wx : WxOutcomes,
     write : WriteOutcomes]

(***************************************************************************)
(* air_quality.py: get_air_quality_data, main.                             *)
(***************************************************************************)
\* a body of the air-quality provider
PayloadAirQuality ==
    [current |-> None, current_weather |-> Some(Stamp(12, 0)),
     hourly_time |-> <<Stamp(13, 0)>>]

\* what the air-quality request can end in
AqOutcomes ==
    {[exc |-> "RequestException", body |-> None],
     [exc |-> "JSONDecodeError", body |-> None],
     [exc |-> "none", body |-> Some(PayloadAirQuality)]}

\* get_air_quality_data as its lines 70-80 read, were the names
\* weather_params and save_weather_cache defined in air_quality.py: the
\* payload is saved to 'weather_cache_raw.json' and returned
get_air_quality_data_saving(location_data, raw, aq, w) ==
    IF location_data = None THEN WxReturn("AttributeError", None, raw, 0)
    ELSE IF ~Truthy(location_data[1].lat) \/ ~Truthy(location_data[1].lon)
    THEN WxReturn("ValueError", None, raw, 0)
    ELSE IF aq.exc # "none" THEN WxReturn(aq.exc, None, raw, 1)
    ELSE LET weather_data == WithRequestContext(aq.body[1], location_data[1])
         IN  WxReturn("none", Some(weather_data),
                      save_weather_cache(raw, weather_data, w), 1)

\* air_quality.py lines 32-87.  raw is 'weather_cache_raw.json', the file
\* line 77 names.  After a successful request, line 72 reads weather_params,
\* a name air_quality.py never defines: NameError, which neither except
\* clause catches, so lines 76-80 (save, return) are never reached
get_air_quality_data(location_data, raw, aq, w) ==
    IF location_data = None THEN WxReturn("AttributeError", None, raw, 0)
    ELSE
    LET lat == location_data[1].lat
        lon == location_data[1].lon
    IN  IF ~Truthy(lat) /\ Truthy(lon)
        THEN WxReturn("ValueError", None, raw, 0)
        ELSE IF ~Truthy(lat) \/ ~Truthy(lon)
        THEN WxReturn("ValueError", None, raw, 0)
        ELSE IF aq.exc # "none"
        THEN WxReturn(aq.exc, None, raw, 1)
        ELSE WxReturn("NameError", None, raw, 1)

\* air_quality.py lines 192-217: after get_location_data, line 201 calls
\* get_weather_data, a name air_quality.py never defines or imports:
\* NameError, caught by "except Exception" and printed
air_quality_main(loc, raw, fmt, config_params, env) ==
    LET l == get_location_data(loc, None, config_params, env.loc) IN
    IF l.exc # "none"
    THEN MainReturn(l.exc, "resolve", l.requests, 0, None, l.file, raw, fmt)
    ELSE MainReturn("NameError", "fetch", l.requests, 0, None, l.file, raw,
                    fmt)

\* the location results handed to a fetch: none, a good one, one without
\* latitude
FetchLocations == {None, Some(LocDenver), Some(LocNoLat)}



(***************************************************************************)
(* hello_mock.py: SmartDisplayManager.                                     *)
(***************************************************************************)
\* datetime.now().strftime("%A, %B %d ... %I:%M %p"): the minute, on a
\* 12-hour dial, of a clock that counts seconds
Strftime(t) == [hour12 |-> ((t \div 3600) % 12), minute |-> ((t \div 60) % 60)]

\* WeatherAPI.fetch_weather_data (lines 73-76): the demo data, stamped with
\* the time of the call; it issues no request
fetch_weather_data(t) == [datetime_str |-> Strftime(t), current_temp |-> 72]

\* hello_mock.py lines 554-555: "self.last_weather_update is None or
\* now - self.last_weather_update > timedelta(seconds=weather_api_interval)"
NeedsRefresh(last, t, interval) ==
    last = None \/ t - last[1] > interval

\* how rendering and saving the image can end
RenderOutcomes == {"ok", "raise"}

(***************************************************************************)
(* hello_mock.py: the helper functions of WeatherAPI.                      *)
(***************************************************************************)
\* Python's round(num / den) for den > 0: to the nearest integer, a tie to
\* the even one
PyRound(num, den) ==
    LET q == num \div den
        r == num % den
    IN  IF 2 * r < den THEN q
        ELSE IF 2 * r > den THEN q + 1
        ELSE IF q % 2 = 0 THEN q ELSE q + 1

\* hello_mock.py lines 161-162
directions ==
    <<"N", "NNE", "NE", "ENE", "E", "ESE", "SE", "SSE",
      "S", "SSW", "SW", "WSW", "W", "WNW", "NW", "NNW">>

\* the sector index taken by cutting the quotient off instead of rounding it
get_wind_direction_truncating(degrees) ==
    directions[(((2 * degrees) \div 45) % 16) + 1]

\* hello_mock.py lines 159-164: "index = round(degrees / 22.5) % 16".  For
\* whole degrees, degrees / 22.5 = 2 * degrees / 45 is never within 1/90
\* of a tie, so the float quotient rounds as the exact one does
get_wind_direction(degrees) ==
    LET index == PyRound(2 * degrees, 45) % 16
    IN  directions[index + 1]

\* hello_mock.py lines 139-156
weather_codes ==
    (0 :> <<"Clear", "SUN">>) @@ (1 :> <<"Mostly Clear", "SUN">>)
    @@ (2 :> <<"Partly Cloudy", "P.CLD">>) @@ (3 :> <<"Overcast", "CLOUD">>)
    @@ (45 :> <<"Foggy", "FOG">>) @@ (48 :> <<"Rime Fog", "FOG">>)
    @@ (51 :> <<"Light Drizzle", "DRZL">>) @@ (53 :> <<"Drizzle", "DRZL">>)
    @@ (55 :> <<"Heavy Drizzle", "DRZL">>) @@ (61 :> <<"Light Rain", "RAIN">>)
    @@ (63 :> <<"Rain", "RAIN">>) @@ (65 :> <<"Heavy Rain", "RAIN">>)
    @@ (71 :> <<"Light Snow", "SNOW">>) @@ (73 :> <<"Snow", "SNOW">>)
    @@ (75 :> <<"Heavy Snow", "SNOW">>) @@ (95 :> <<"Thunderstorm", "STORM">>)

\* the result of a helper call: the exception raised ("none" when none) and
\* the value returned
ApiReturn(exc, ret) == [exc |-> exc, ret |-> ret]

\* the lookup written weather_codes[code]
get_weather_condition_indexing(code) ==
    IF code \in DOMAIN weather_codes
    THEN ApiReturn("none", Some(weather_codes[code]))
    ELSE ApiReturn("KeyError", None)

\* hello_mock.py lines 137-157: weather_codes.get(code, ("Unknown", "?"))
get_weather_condition(code) ==
    ApiReturn("none", Some(DictGet(weather_codes, code, <<"Unknown", "?">>)))

\* hello_mock.py line 175: "[0] * 24"
HoursPerDay == 24

\* the list a missing pollen series is replaced with
ZeroSeries == [h \in 1..HoursPerDay |-> 0]

\* Python's "value or default" on a number
OrDefault(value, default) == IF value = 0 THEN default ELSE value

\* hourly_pollen.get(name, [0] * 24)[current_hour]: None when the list is
\* too short (IndexError)
SeriesAt(hourly_pollen, name, current_hour) ==
    LET series == DictGet(hourly_pollen, name, ZeroSeries)
    IN  IF current_hour + 1 > Len(series) THEN None
        ELSE Some(series[current_hour + 1])

\* the values read without their "or 2", "or 5", "or 1"
process_pollen_data_without_defaults(hourly_pollen, current_hour) ==
    LET tree == SeriesAt(hourly_pollen, "alder_pollen", current_hour)
        grass == SeriesAt(hourly_pollen, "grass_pollen", current_hour)
        ragweed == SeriesAt(hourly_pollen, "ragweed_pollen", current_hour)
    IN  IF None \in {tree, grass, ragweed} THEN ApiReturn("IndexError", None)
        ELSE ApiReturn("none", Some([tree |-> tree[1], grass |-> grass[1],
                                     ragweed |-> ragweed[1]]))

\* hello_mock.py lines 166-178; current_hour is datetime.now().hour
process_pollen_data(hourly_pollen, current_hour) ==
    IF hourly_pollen = <<>>
    THEN ApiReturn("none", Some([tree |-> 2, grass |-> 5, ragweed |-> 1]))
    ELSE
    LET tree == SeriesAt(hourly_pollen, "alder_pollen", current_hour)
        grass == SeriesAt(hourly_pollen, "grass_pollen", current_hour)
        ragweed == SeriesAt(hourly_pollen, "ragweed_pollen", current_hour)
    IN  IF None \in {tree, grass, ragweed} THEN ApiReturn("IndexError", None)
        ELSE ApiReturn("none", Some([tree |-> OrDefault(tree[1], 2),
                                     grass |-> OrDefault(grass[1], 5),
                                     ragweed |-> OrDefault(ragweed[1], 1)]))

\* the hourly series of an air-quality payload: all zero, all 3, or cut
\* short after one hour
SeriesValues ==
    {ZeroSeries, [h \in 1..HoursPerDay |-> 3], <<3>>}

\* the series names _process_pollen_data reads, and one it does not
PollenSeries == {"alder_pollen", "grass_pollen", "ragweed_pollen"}

\* the "hourly" objects of an air-quality payload
HourlyPollens ==
    {[alder_pollen |-> a, grass_pollen |-> g, ragweed_pollen |-> r]
         : a \in SeriesValues, g \in SeriesValues, r \in SeriesValues}
    \cup UNION {{Restrict(d, ks), Restrict(d, ks) @@ ("pm10" :> ZeroSeries)}
                  : ks \in SUBSET PollenSeries \ {PollenSeries}, d \in
                    {[alder_pollen |-> ZeroSeries, grass_pollen |-> <<3>>,
                      ragweed_pollen |-> [h \in 1..HoursPerDay |-> 3]]}}

\* dict.get(key) with no default: None when the key is missing
GetOrNone(d, key) == IF key \in DOMAIN d THEN Some(d[key]) ELSE None

\* weather.py lines 103-115: formatted_current_data.  current_data is the
\* payload's 'current' object ({} when the payload has none);
\* datetime.fromisoformat(None) raises TypeError, and a missing measurement
\* is copied as None
weather_formatted_current_data(current_data) ==
    IF "time" \notin DOMAIN current_data THEN ApiReturn("TypeError", None)
    ELSE ApiReturn("none",
             Some([datetime |-> current_data["time"],
                   minutes |-> fromisoformat(current_data["time"]),
                   weather_code |-> GetOrNone(current_data, "weather_code"),
                   temperature |->
                       GetOrNone(current_data, "apparent_temperature"),
                   wind_speed |-> GetOrNone(current_data, "wind_speed_10m"),
                   precipitation |-> GetOrNone(current_data, "precipitation")]))

\* weather.py lines 142-163: formatted_daily_data, for a payload whose
\* daily measurement series are as long as its time array.  daily_time is
\* daily_data.get('time'): None when the payload has no daily times
\* (enumerate(None) raises TypeError)
weather_formatted_daily_data(daily_time) ==
    IF daily_time = None THEN ApiReturn("TypeError", None)
    ELSE ApiReturn("none",
             Some([index \in 1..Len(daily_time[1]) |->
                      [datetime |-> daily_time[1][index], index |-> index]]))

\* hello_mock.py line 110: "min(3, len(daily.get("time", [])))"
DailyCap == 3

\* Python's min on two numbers
Min(a, b) == IF a < b THEN a ELSE b

\* hello_mock.py lines 78-135, current conditions (80-95) and daily forecast
\* (108-117), for a payload whose daily measurement series are as long as
\* its time array.  current and air_current are the 'current' objects of the
\* two payloads
process_weather_data(current, daily_time, air_current) ==
    LET weather_code == DictGet(current, "weather_code", 0)
        condition == get_weather_condition(weather_code).ret[1]
        daily == IF daily_time = None THEN <<>> ELSE daily_time[1]
    IN  ApiReturn("none",
            Some([current_temp |-> DictGet(current, "temperature_2m", 0),
                  condition |-> condition[1],
                  condition_icon |-> condition[2],
                  wind_speed |-> DictGet(current, "wind_speed_10m", 0),
                  wind_direction |-> get_wind_direction(
                      DictGet(current, "wind_direction_10m", 0)),
                  uv_index |-> DictGet(current, "uv_index", 0),
                  air_quality |-> DictGet(air_current, "us_aqi", 25),
                  daily_forecast |->
                      [i \in 1..Min(DailyCap, Len(daily)) |->
                          [date |-> daily[i], index |-> i]]]))

\* the 'current' objects drawn: any of the fields may be missing
CurrentObjects(fields) ==
    {Restrict([k \in fields |-> IF k = "time" THEN Stamp(12, 0) ELSE 7], ks)
         : ks \in SUBSET fields}

\* the daily time arrays drawn: none, or the next days in order
DailyTimes ==
    {None} \cup {Some([i \in 1..n |-> i]) : n \in 0..MaxDailyLen}

\* the arguments drawn for the helpers
ApiInputs ==
    {[fn |-> "_get_wind_direction", degrees |-> d]
         : d \in (0 - MaxDegrees)..MaxDegrees}
    \cup {[fn |-> "_get_weather_condition", code |-> c] : c \in -1..MaxCode}
    \cup {[fn |-> "_process_pollen_data", hourly_pollen |-> p,
            current_hour |-> h]
             : p \in HourlyPollens, h \in 0..(HoursPerDay - 1)}
    \cup {[fn |-> "format_weather_data", current |-> c, daily_time |-> t]
             : c \in CurrentObjects({"time", "weather_code",
                                     "apparent_temperature", "wind_speed_10m",
                                     "precipitation"}),
               t \in DailyTimes}
    \cup {[fn |-> "_process_weather_data", current |-> c, daily_time |-> t,
            air_current |-> a]
             : c \in CurrentObjects({"temperature_2m", "weather_code",
                                     "wind_speed_10m", "wind_direction_10m",
                                     "uv_index"}),
               t \in DailyTimes, a \in CurrentObjects({"us_aqi"})}

(***************************************************************************)
(* Specification of the normaliser: a payload is drawn, then one of the    *)
(* two modules' format_weather_data is applied to it.                      *)
(***************************************************************************)
NormIdle ==
    /\ nKind = "none"
    /\ nRes = "none"
    /\ nHourly = <<>>
    /\ nExamined = 0

KeyIdle == kParams = <<>> /\ kRes = None

LocIdle ==
    /\ locFile = FileAbsent
    /\ lCall = None
    /\ resolved = <<>>
    /\ ioLogged = FALSE

PipeIdle ==
    /\ rawFile = FileAbsent
    /\ fmtFile = FileAbsent
    /\ rawFresh = FALSE
    /\ mRun = None

\* SmartDisplayManager.__init__ (lines 498-500), the clock at 0
DispIdle ==
    /\ now = 0
    /\ weather_cache = None
    /\ last_weather_update = None
    /\ dCall = None
    /\ scheduler = "idle"

WriteIdle ==
    /\ wFile = None
    /\ wPrev = None
    /\ wNew = <<>>
    /\ wPc = "idle"

FetchIdle == fCall = None

ApiIdle == aIn = <<>> /\ aOut = None

NormInit ==
    /\ nPayload \in Payloads
    /\ NormIdle
    /\ KeyIdle
    /\ LocIdle
    /\ PipeIdle
    /\ DispIdle /\ WriteIdle /\ FetchIdle /\ ApiIdle /\ weather_api_interval = 0

FormatWeather ==
    /\ nKind = "none"
    /\ LET r == weather_format_weather_data(nPayload) IN
       /\ nKind' = "weather"
       /\ nRes' = r.res
       /\ nHourly' = r.hourly
       /\ nExamined' = r.examined
    /\ UNCHANGED <<nPayload, keyVars, writeVars, fetchVars, apiVars, locVars,
                   pipeVars, dispVars>>

FormatAirQuality ==
    /\ nKind = "none"
    /\ LET r == air_quality_format_weather_data(nPayload) IN
       /\ nKind' = "air_quality"
       /\ nRes' = r.res
       /\ nHourly' = r.hourly
       /\ nExamined' = r.examined
    /\ UNCHANGED <<nPayload, keyVars, writeVars, fetchVars, apiVars, locVars,
                   pipeVars, dispVars>>

NormNext == FormatWeather \/ FormatAirQuality

SpecNorm == NormInit /\ [][NormNext]_vars

(***************************************************************************)
(* Specification of create_cache_key: a params dict is drawn, then the     *)
(* function is applied to it.                                              *)
(***************************************************************************)
KeyInit ==
    /\ kParams \in KeyParams
    /\ kRes = None
    /\ nPayload = <<>>
    /\ NormIdle
    /\ LocIdle
    /\ PipeIdle
    /\ DispIdle /\ WriteIdle /\ FetchIdle /\ ApiIdle /\ weather_api_interval = 0

CreateCacheKey ==
    /\ kRes = None
    /\ kRes' = Some(create_cache_key(kParams))
    /\ UNCHANGED <<kParams, normVars, writeVars, fetchVars, apiVars, locVars,
                   pipeVars, dispVars>>

KeyNext == CreateCacheKey

SpecKey == KeyInit /\ [][KeyNext]_vars

(***************************************************************************)
(* Specification of the location resolver: get_location_data is called     *)
(* again and again with a descriptor, against the same cache file.         *)
(***************************************************************************)
LocInit ==
    /\ LocIdle
    /\ KeyIdle
    /\ nPayload = <<>>
    /\ NormIdle
    /\ PipeIdle
    /\ DispIdle /\ WriteIdle /\ FetchIdle /\ ApiIdle /\ weather_api_interval = 0

\* one call get_location_data(location_params)
Resolve ==
    \E d \in Descriptors, env \in LocEnvs({LocDenver, LocOther}) :
    \E r \in {get_location_data(locFile, Some(d), None, env)} :
        LET first == r.exc = "none" /\ r.ret # None
                     /\ r.key[1] \notin DOMAIN resolved
        IN  /\ locFile' = r.file
            /\ lCall' = Some([params |-> d, exc |-> r.exc, ret |-> r.ret,
                              requests |-> r.requests, key |-> r.key,
                              answer |-> IF r.requests = 0 THEN None
                                         ELSE Some(env.geo),
                              prior |-> IF r.key # None /\ r.key[1] \in DOMAIN resolved
                                        THEN Some(resolved[r.key[1]]) ELSE None,
                              before |-> locFile, read |-> env.read,
                              write |-> env.write,
                              after_empty |->
                                  /\ lCall # None
                                  /\ lCall[1].params = d
                                  /\ lCall[1].answer # None
                                  /\ lCall[1].answer[1].exc = "none"
                                  /\ lCall[1].answer[1].data = <<>>])
            /\ resolved' = IF first THEN resolved @@ (r.key[1] :> r.ret[1])
                           ELSE resolved
            /\ ioLogged' = (ioLogged \/ r.logged)
            /\ UNCHANGED <<normVars, keyVars, writeVars, fetchVars, apiVars,
                           pipeVars, dispVars>>

LocNext == Resolve

SpecLoc == LocInit /\ [][LocNext]_vars

(***************************************************************************)
(* Specification of the weather pipeline: main of weather.py runs again    *)
(* and again against the same three files, and time passes between runs.   *)
(***************************************************************************)
PipeInit ==
    /\ PipeIdle
    /\ LocIdle
    /\ KeyIdle
    /\ nPayload = <<>>
    /\ NormIdle
    /\ DispIdle /\ WriteIdle /\ FetchIdle /\ ApiIdle /\ weather_api_interval = 0

\* one run of main
WeatherMain ==
    \E c \in Configs, env \in PipeEnvs :
    \E r \in {main(locFile, rawFile, fmtFile, c, env)} :
        /\ locFile' = r.loc
        /\ rawFile' = r.raw
        /\ fmtFile' = r.fmt
        /\ rawFresh' = IF r.stage \in {"normalize", "done"}
                       THEN r.raw.st = "ok" /\ (env.write = "ok" \/ rawFresh)
                       ELSE rawFresh
        /\ mRun' = Some([exc |-> r.exc, stage |-> r.stage,
                         geo_requests |-> r.geo_requests,
                         wx_requests |-> r.wx_requests,
                         result |-> r.result,
                         raw_before |-> rawFile.st,
                         fresh_before |-> rawFresh])
        /\ UNCHANGED <<normVars, keyVars, writeVars, fetchVars, apiVars,
                       lCall, resolved, ioLogged, dispVars>>

\* config.CACHE_DURATION minutes pass since the raw cache was written
CacheDurationElapses ==
    /\ rawFresh
    /\ rawFresh' = FALSE
    /\ UNCHANGED <<normVars, keyVars, writeVars, fetchVars, apiVars, locVars,
                   rawFile, fmtFile, mRun, dispVars>>

PipeNext == WeatherMain \/ CacheDurationElapses

SpecPipe == PipeInit /\ [][PipeNext]_vars

(***************************************************************************)
(* Specification of the fetch operations: get_location_data,               *)
(* get_weather_data and get_air_quality_data are called, and the two       *)
(* modules' main run, in any order against the same cache files.           *)
(***************************************************************************)
\* the record of a call: the operation, the cache kind it serves, how it
\* ended, what it returned, the provider requests it issued, the provider's
\* answer (None when there was none), and how its cache write would end
FetchRecord(op, kind, exc, ret, requests, body, location, w) ==
    Some([op |-> op, kind |-> kind, exc |-> exc, ret |-> ret,
          requests |-> requests, body |-> body, location |-> location,
          write |-> w])

\* what the environment answers during a run of main: the cache-file
\* writes of one run end alike, and the location file is readable
FetchEnvs ==
    {env \in [loc : LocEnvs({LocDenver}), wx : WxOutcomes,
              write : WriteOutcomes] :
        env.loc.read = "ok" /\ env.loc.write = env.write}

FetchInit ==
    /\ FetchIdle
    /\ PipeIdle
    /\ LocIdle
    /\ KeyIdle
    /\ NormIdle /\ nPayload = <<>>
    /\ DispIdle /\ weather_api_interval = 0
    /\ WriteIdle
    /\ ApiIdle

GetLocationData ==
    \E d \in {DescPostal, DescNeither}, env \in LocEnvs({LocDenver}) :
    \E r \in {get_location_data(locFile, Some(d), None, env)} :
        /\ locFile' = r.file
        /\ fCall' = FetchRecord("get_location_data", "location", r.exc, r.ret,
                                r.requests, None, None, env.write)
        /\ UNCHANGED <<rawFile, fmtFile, rawFresh, mRun, lCall, resolved,
                       ioLogged>>
        /\ UNCHANGED <<normVars, keyVars, dispVars, writeVars, apiVars>>

GetWeatherData ==
    \E l \in FetchLocations, wx \in WxOutcomes, w \in WriteOutcomes :
    \E r \in {get_weather_data(l, rawFile, wx, w)} :
        /\ rawFile' = r.raw
        /\ fCall' = FetchRecord("get_weather_data", "weather", r.exc, r.data,
                                r.requests,
                                IF r.requests = 1 THEN wx.body ELSE None, l, w)
        /\ UNCHANGED <<fmtFile, rawFresh, mRun, locVars>>
        /\ UNCHANGED <<normVars, keyVars, dispVars, writeVars, apiVars>>

GetAirQualityData ==
    \E l \in FetchLocations, aq \in AqOutcomes, w \in WriteOutcomes :
    \E r \in {get_air_quality_data(l, rawFile, aq, w)} :
        /\ rawFile' = r.raw
        /\ fCall' = FetchRecord("get_air_quality_data", "air_quality", r.exc,
                                r.data, r.requests,
                                IF r.requests = 1 THEN aq.body ELSE None, l, w)
        /\ UNCHANGED <<fmtFile, rawFresh, mRun, locVars>>
        /\ UNCHANGED <<normVars, keyVars, dispVars, writeVars, apiVars>>

\* main of weather.py
FetchWeatherMain ==
    \E c \in Configs, env \in FetchEnvs :
    \E r \in {main(locFile, rawFile, fmtFile, c, env)} :
        /\ locFile' = r.loc
        /\ rawFile' = r.raw
        /\ fmtFile' = r.fmt
        /\ fCall' = FetchRecord("main", "weather", r.exc, r.result,
                                r.wx_requests,
                                IF r.wx_requests = 1 THEN env.wx.body ELSE None,
                                None, env.write)
        /\ UNCHANGED <<rawFresh, mRun, lCall, resolved, ioLogged>>
        /\ UNCHANGED <<normVars, keyVars, dispVars, writeVars, apiVars>>

\* main of air_quality.py
AirQualityMain ==
    \E c \in Configs, le \in LocEnvs({LocDenver}) :
    \E env \in {[loc |-> le, write |-> le.write]} :
    \E r \in {air_quality_main(locFile, rawFile, fmtFile, c, env)} :
        /\ locFile' = r.loc
        /\ rawFile' = r.raw
        /\ fmtFile' = r.fmt
        /\ fCall' = FetchRecord("main", "air_quality", r.exc, r.result,
                                r.wx_requests, None, None, env.write)
        /\ UNCHANGED <<rawFresh, mRun, lCall, resolved, ioLogged>>
        /\ UNCHANGED <<normVars, keyVars, dispVars, writeVars, apiVars>>

FetchNext ==
    \/ GetLocationData
    \/ GetWeatherData
    \/ GetAirQualityData
    \/ FetchWeatherMain
    \/ AirQualityMain

SpecFetch == FetchInit /\ [][FetchNext]_vars

(***************************************************************************)
(* Specification of WeatherAPI's helpers: an argument is drawn, then the   *)
(* helper it is for is applied to it.                                      *)
(***************************************************************************)
ApiInit ==
    /\ aIn \in ApiInputs
    /\ aOut = None
    /\ NormIdle /\ nPayload = <<>>
    /\ KeyIdle
    /\ LocIdle
    /\ PipeIdle
    /\ DispIdle /\ weather_api_interval = 0
    /\ WriteIdle
    /\ FetchIdle

GetWindDirection ==
    /\ aOut = None
    /\ aIn.fn = "_get_wind_direction"
    /\ aOut' = Some(ApiReturn("none", Some(get_wind_direction(aIn.degrees))))
    /\ UNCHANGED <<aIn, normVars, keyVars, locVars, pipeVars, dispVars,
                   writeVars, fetchVars>>

GetWeatherCondition ==
    /\ aOut = None
    /\ aIn.fn = "_get_weather_condition"
    /\ aOut' = Some(get_weather_condition(aIn.code))
    /\ UNCHANGED <<aIn, normVars, keyVars, locVars, pipeVars, dispVars,
                   writeVars, fetchVars>>

ProcessPollenData ==
    /\ aOut = None
    /\ aIn.fn = "_process_pollen_data"
    /\ aOut' = Some(process_pollen_data(aIn.hourly_pollen, aIn.current_hour))
    /\ UNCHANGED <<aIn, normVars, keyVars, locVars, pipeVars, dispVars,
                   writeVars, fetchVars>>

\* weather.py format_weather_data, current and daily parts: the first
\* exception raised leaves the function
FormatCurrentAndDaily ==
    /\ aOut = None
    /\ aIn.fn = "format_weather_data"
    /\ \E c \in {weather_formatted_current_data(aIn.current)},
          d \in {weather_formatted_daily_data(aIn.daily_time)} :
          aOut' = Some(IF c.exc # "none" THEN c
                       ELSE IF d.exc # "none" THEN d
                       ELSE ApiReturn("none", Some([current |-> c.ret[1],
                                                    daily |-> d.ret[1]])))
    /\ UNCHANGED <<aIn, normVars, keyVars, locVars, pipeVars, dispVars,
                   writeVars, fetchVars>>

ProcessWeatherData ==
    /\ aOut = None
    /\ aIn.fn = "_process_weather_data"
    /\ aOut' = Some(process_weather_data(aIn.current, aIn.daily_time,
                                         aIn.air_current))
    /\ UNCHANGED <<aIn, normVars, keyVars, locVars, pipeVars, dispVars,
                   writeVars, fetchVars>>

ApiNext ==
    \/ GetWindDirection
    \/ GetWeatherCondition
    \/ ProcessPollenData
    \/ FormatCurrentAndDaily
    \/ ProcessWeatherData

SpecApi == ApiInit /\ [][ApiNext]_vars

(***************************************************************************)
(* Specification of the display manager: update_display and                *)
(* update_display_with_time are called in any order while the clock runs.  *)
(***************************************************************************)
DispInit ==
    /\ DispIdle /\ WriteIdle /\ FetchIdle /\ ApiIdle
    /\ weather_api_interval \in 1..MaxInterval
    /\ PipeIdle
    /\ LocIdle
    /\ KeyIdle
    /\ nPayload = <<>>
    /\ NormIdle

\* hello_mock.py lines 547-582: the cache is refreshed before the image is
\* rendered and saved; an exception there is logged and raised again
update_display ==
    \E render \in RenderOutcomes :
    \E refresh \in {NeedsRefresh(last_weather_update, now, weather_api_interval)} :
        /\ weather_cache' = IF refresh THEN Some(fetch_weather_data(now))
                            ELSE weather_cache
        /\ last_weather_update' = IF refresh THEN Some(now)
                                  ELSE last_weather_update
        /\ dCall' = Some([op |-> "update_display", at |-> now,
                          fetched |-> refresh,
                          last_before |-> last_weather_update,
                          exc |-> IF render = "ok" THEN "none" ELSE "Exception"])

\* update_display called on the manager
UpdateDisplay ==
    /\ update_display
    /\ UNCHANGED <<now, weather_api_interval, scheduler, normVars, keyVars,
                   writeVars, fetchVars, apiVars, locVars, pipeVars>>

\* an update_display_with_time that keeps the data it fetched for want of a
\* cache
update_display_with_time_storing ==
    \E render \in RenderOutcomes :
        /\ weather_cache' =
              IF weather_cache # None
              THEN Some([weather_cache[1] EXCEPT !.datetime_str = Strftime(now)])
              ELSE Some(fetch_weather_data(now))
        /\ dCall' = Some([op |-> "update_display_with_time", at |-> now,
                          fetched |-> (weather_cache = None),
                          last_before |-> last_weather_update,
                          exc |-> "none"])
        /\ UNCHANGED last_weather_update

\* hello_mock.py lines 518-545: the cached data gets the current time, data
\* fetched for want of a cache is rendered and not stored, and every
\* exception is logged and swallowed
update_display_with_time ==
    \E render \in RenderOutcomes :
        /\ weather_cache' =
              IF weather_cache # None
              THEN Some([weather_cache[1] EXCEPT !.datetime_str = Strftime(now)])
              ELSE weather_cache
        /\ dCall' = Some([op |-> "update_display_with_time", at |-> now,
                          fetched |-> (weather_cache = None),
                          last_before |-> last_weather_update,
                          exc |-> "none"])
        /\ UNCHANGED last_weather_update

\* update_display_with_time called on the manager
UpdateDisplayWithTime ==
    /\ update_display_with_time
    /\ UNCHANGED <<now, weather_api_interval, scheduler, normVars, keyVars,
                   writeVars, fetchVars, apiVars, locVars, pipeVars>>

\* a second passes
Tick ==
    /\ now < MaxNow
    /\ now' = now + 1
    /\ UNCHANGED <<weather_api_interval, weather_cache, last_weather_update,
                   dCall, scheduler, normVars, keyVars, writeVars, fetchVars,
                   apiVars, locVars, pipeVars>>

DispNext == UpdateDisplay \/ UpdateDisplayWithTime \/ Tick

SpecDisplay == DispInit /\ [][DispNext]_vars

(***************************************************************************)
(* Specification of run_scheduler (hello_mock.py lines 595-619): the       *)
(* initial update, then the loop of schedule.run_pending and time.sleep.   *)
(* The two jobs' periods (30 s, refresh_interval) are abstracted: a job is *)
(* due at any iteration.                                                   *)
(***************************************************************************)
\* where an exception raised by a job leaves run_scheduler: neither the
\* call of line 609 nor run_pending in the loop is guarded against
\* Exception (line 617 catches KeyboardInterrupt only)
AfterJob(exc) == IF exc = "none" THEN "running" ELSE "crashed"

\* lines 597-609: the jobs are registered and update_display is called once
RunScheduler ==
    /\ scheduler = "idle"
    /\ update_display
    /\ scheduler' = AfterJob(dCall'[1].exc)
    /\ UNCHANGED <<now, weather_api_interval, normVars, keyVars, writeVars,
                   fetchVars, apiVars, locVars, pipeVars>>

\* line 615: run_pending runs the job update_display
RunPendingUpdateDisplay ==
    /\ scheduler = "running"
    /\ update_display
    /\ scheduler' = AfterJob(dCall'[1].exc)
    /\ UNCHANGED <<now, weather_api_interval, normVars, keyVars, writeVars,
                   fetchVars, apiVars, locVars, pipeVars>>

\* line 615: run_pending runs the job update_display_with_time
RunPendingUpdateDisplayWithTime ==
    /\ scheduler = "running"
    /\ update_display_with_time
    /\ scheduler' = AfterJob(dCall'[1].exc)
    /\ UNCHANGED <<now, weather_api_interval, normVars, keyVars, writeVars,
                   fetchVars, apiVars, locVars, pipeVars>>

\* line 616: time.sleep(1)
Sleep ==
    /\ scheduler = "running"
    /\ Tick

\* lines 617-619: Ctrl-C ends the loop
KeyboardInterrupt ==
    /\ scheduler = "running"
    /\ scheduler' = "interrupted"
    /\ UNCHANGED <<now, weather_api_interval, weather_cache,
                   last_weather_update, dCall, normVars, keyVars, writeVars,
                   fetchVars, apiVars, locVars, pipeVars>>

SchedNext ==
    \/ RunScheduler
    \/ RunPendingUpdateDisplay
    \/ RunPendingUpdateDisplayWithTime
    \/ Sleep
    \/ KeyboardInterrupt

SpecSched == DispInit /\ [][SchedNext]_vars

(***************************************************************************)
(* Specification of one cache-file write, as save_cache                    *)
(* (location_coordinates.py 35-42), save_weather_cache (weather.py 22-29)  *)
(* and save_air_quality_cache (air_quality.py 22-29) all do it:            *)
(*     with open(cache_file, 'w') as f: json.dump(document, f)             *)
(* open truncates the file; json.dump then writes the document piece by    *)
(* piece; the process can be interrupted between any two steps.            *)
(***************************************************************************)
SaveFunctions == {"save_cache", "save_weather_cache", "save_air_quality_cache"}

\* the documents json.dump can be asked to write, as sequences of tokens
Documents == SeqsUpTo({"a", "b"}, MaxDocLen) \ {<<>>}

\* what open(cache_file, 'w') can end in
OpenOutcomes == {"ok", "IOError"}

\* open(cache_file, 'w'): creates or truncates the file; an IOError is
\* logged by the except branch and the function returns
OpenForWrite ==
    /\ wPc = "idle"
    /\ \E fn \in SaveFunctions, document \in Documents, o \in OpenOutcomes :
        /\ wPrev' = wFile
        /\ wNew' = [fn |-> fn, document |-> document]
        /\ wFile' = IF o = "ok" THEN Some(<<>>) ELSE wFile
        /\ wPc' = IF o = "ok" THEN "writing" ELSE "idle"
    /\ UNCHANGED <<normVars, keyVars, locVars, pipeVars, dispVars, fetchVars,
                   apiVars>>

\* json.dump writes the next piece of the document
DumpChunk ==
    /\ wPc = "writing"
    /\ Len(wFile[1]) < Len(wNew.document)
    /\ wFile' = Some(Append(wFile[1], wNew.document[Len(wFile[1]) + 1]))
    /\ UNCHANGED <<wPrev, wNew, wPc>>
    /\ UNCHANGED <<normVars, keyVars, locVars, pipeVars, dispVars, fetchVars,
                   apiVars>>

\* a write raises IOError (disk full): the with block closes the file and
\* the except branch logs the error
DumpFails ==
    /\ wPc = "writing"
    /\ Len(wFile[1]) < Len(wNew.document)
    /\ wPc' = "idle"
    /\ UNCHANGED <<wFile, wPrev, wNew>>
    /\ UNCHANGED <<normVars, keyVars, locVars, pipeVars, dispVars, fetchVars,
                   apiVars>>

\* the document is written: the with block closes the file
CloseFile ==
    /\ wPc = "writing"
    /\ Len(wFile[1]) = Len(wNew.document)
    /\ wPc' = "idle"
    /\ UNCHANGED <<wFile, wPrev, wNew>>
    /\ UNCHANGED <<normVars, keyVars, locVars, pipeVars, dispVars, fetchVars,
                   apiVars>>

\* the process is interrupted (killed, power lost) while the file is open
Interrupt ==
    /\ wPc = "writing"
    /\ wPc' = "killed"
    /\ UNCHANGED <<wFile, wPrev, wNew>>
    /\ UNCHANGED <<normVars, keyVars, locVars, pipeVars, dispVars, fetchVars,
                   apiVars>>

\* the program is started again
Restart ==
    /\ wPc = "killed"
    /\ wPc' = "idle"
    /\ UNCHANGED <<wFile, wPrev, wNew>>
    /\ UNCHANGED <<normVars, keyVars, locVars, pipeVars, dispVars, fetchVars,
                   apiVars>>

WriteInit ==
    /\ WriteIdle
    /\ NormIdle /\ nPayload = <<>>
    /\ KeyIdle
    /\ LocIdle
    /\ PipeIdle
    /\ DispIdle /\ weather_api_interval = 0
    /\ FetchIdle
    /\ ApiIdle

WriteNext ==
    \/ OpenForWrite
    \/ DumpChunk
    \/ DumpFails
    \/ CloseFile
    \/ Interrupt
    \/ Restart

SpecWrite == WriteInit /\ [][WriteNext]_vars

(***************************************************************************)
(* Claims about the normaliser (checked under SpecNorm).                   *)
(***************************************************************************)
\* the "datetime" strings of a formatted hourly sequence
Datetimes(hourly) == [k \in 1..Len(hourly) |-> hourly[k].datetime]

\* the current timestamp the module that ran parsed from the payload
CurrentDt ==
    IF nKind = "weather" THEN fromisoformat(nPayload.current[1])
    ELSE fromisoformat(nPayload.current_weather[1])

\* the indices of the hourly entries strictly after current + grace window
UpcomingIdx ==
    {k \in 1..Len(nPayload.hourly_time) :
        fromisoformat(nPayload.hourly_time[k]) > CurrentDt + 25}

\* the position of index k among the upcoming entries, in provider order
RankOf(k) == Cardinality({j \in UpcomingIdx : j <= k})

\* the first 4 upcoming entries, in provider order
FirstUpcoming ==
    LET kept == {k \in UpcomingIdx : RankOf(k) <= 4}
    IN  [n \in 1..Cardinality(kept) |->
            LET k == CHOOSE j \in kept : RankOf(j) = n
            IN  hour_data(nPayload.hourly_time[k], k)]

\* C1: whenever either module's format_weather_data has produced an hourly
\* sequence, it has at most 4 entries and every entry's timestamp is strictly
\* greater than the payload's current timestamp plus 25 minutes.
C1_HourlyCappedAndAfterGrace ==
    nRes = "ok" =>
        /\ Len(nHourly) <= 4
        /\ \A k \in 1..Len(nHourly) :
              fromisoformat(nHourly[k].datetime) > CurrentDt + 25

\* C2: the hourly sequence produced by either module equals the first 4
\* entries, in provider order, of the entries strictly after current + 25
\* minutes, and no entry after the one that reaches the cap is parsed.
C2_HourlyIsFirstUpcoming ==
    nRes = "ok" =>
        /\ nHourly = FirstUpcoming
        /\ \A k \in UpcomingIdx : RankOf(k) = 4 => nExamined <= k

HasPostal(d) == "postalcode" \in DOMAIN d

HasCity(d) == "city" \in DOMAIN d

\* C5: create_cache_key returns country + "_" + locality, the locality being
\* the postal code when one is supplied and the city otherwise; it raises
\* exactly when neither is supplied; and every params dict with the same
\* country, postal code and city gets the same result.
C5_CacheKeyDerivation ==
    kRes # None =>
        LET r == kRes[1]
            country == IF "country" \in DOMAIN kParams
                       THEN kParams["country"] ELSE <<>>
        IN  /\ (r.exc = "ValueError") <=> (~HasPostal(kParams) /\ ~HasCity(kParams))
            /\ HasPostal(kParams) =>
                  r.key = country \o <<"_">> \o kParams["postalcode"]
            /\ (~HasPostal(kParams) /\ HasCity(kParams)) =>
                  r.key = country \o <<"_">> \o kParams["city"]
            /\ \A q \in KeyParams :
                  Restrict(q, {"country", "postalcode", "city"})
                      = Restrict(kParams, {"country", "postalcode", "city"})
                  => create_cache_key(q) = r

\* C5 witness: a key was derived from a dict holding both a postal code and
\* a city, next to keys the derivation must ignore
C5_Witness ==
    /\ kRes # None
    /\ HasPostal(kParams) /\ HasCity(kParams)
    /\ "state" \in DOMAIN kParams
    /\ kRes[1].key = US \o <<"_">> \o P80204

(***************************************************************************)
(* Claims about the location resolver (checked under SpecLoc).             *)
(***************************************************************************)
\* the last call was a resolve of a descriptor whose key had been resolved
\* successfully before
ResolvedBefore == lCall # None /\ lCall[1].prior # None

\* the last call returned that first result without a geocoding request
ServedFromCache ==
    /\ lCall[1].exc = "none"
    /\ lCall[1].requests = 0
    /\ lCall[1].ret = lCall[1].prior

EmptyAnswer ==
    /\ lCall # None
    /\ lCall[1].answer # None
    /\ lCall[1].answer[1].exc = "none"
    /\ lCall[1].answer[1].data = <<>>

\* C6: a resolve on a cache miss whose geocoding answer is empty fails with
\* NotFoundError and returns no value to the caller.
C6_EmptyAnswerRaisesNotFound ==
    EmptyAnswer => lCall[1].exc = "NotFoundError"

\* the last call missed the cache and the geocoder answered with a result
MissWithResult ==
    /\ lCall # None
    /\ lCall[1].answer # None
    /\ lCall[1].answer[1].exc = "none"
    /\ lCall[1].answer[1].data # <<>>

\* the cache map the last call loaded: the file's, or the empty map when
\* the file was absent, unreadable or corrupt
LoadedCache ==
    IF lCall[1].before.st = "ok" /\ lCall[1].read = "ok"
    THEN lCall[1].before.data ELSE <<>>

\* the last call left the whole cache map, the new entry under its key
\* included, in the cache file, and returned what a hit on that file returns
WrittenThrough ==
    /\ lCall[1].exc = "none"
    /\ locFile.st = "ok"
    /\ locFile.data =
          (lCall[1].key[1] :> lCall[1].answer[1].data) @@ LoadedCache
    /\ lCall[1].ret = Some(locFile.data[lCall[1].key[1]][1])

\* C15 as stated: on a miss answered with a result, the result is stored
\* under the cache key, the whole map is in the cache file when the call
\* returns, and the value returned is the one a later hit returns.
C15_MissWritesThrough == MissWithResult => WrittenThrough

\* C15 as amended: the same, when the write of the cache file goes through;
\* when it fails the call still returns the geocoder's result.
C15_MissWritesThroughUnlessWriteFails ==
    MissWithResult =>
        /\ lCall[1].exc = "none"
        /\ lCall[1].ret = Some(lCall[1].answer[1].data[1])
        /\ lCall[1].write = "ok" => WrittenThrough

\* C15 witness: a miss with a result was written through to a file that
\* held another entry already
C15_Witness ==
    /\ MissWithResult
    /\ LoadedCache # <<>>
    /\ lCall[1].write = "ok"
    /\ WrittenThrough

\* the last call found the cache file corrupt or could not read it, and its
\* descriptor yields a cache key
UnreadableStore ==
    /\ lCall # None
    /\ lCall[1].key # None
    /\ \/ lCall[1].before.st = "corrupt"
       \/ lCall[1].before.st = "ok" /\ lCall[1].read = "IOError"

\* C16: a corrupt or unreadable cache file reads as an empty cache, not as
\* an error: the resolve goes on to the geocoding request and ends as that
\* request ends.
C16_UnreadableStoreReadsAsAbsent ==
    UnreadableStore =>
        /\ lCall[1].requests = 1
        /\ lCall[1].exc = lCall[1].answer[1].exc

\* C16 witness: a resolve against an unreadable file that holds the key got
\* its result from the geocoder
C16_Witness ==
    /\ UnreadableStore
    /\ lCall[1].requests = 1
    /\ lCall[1].ret # None
    /\ lCall[1].before.st = "ok"
    /\ lCall[1].key[1] \in DOMAIN lCall[1].before.data

\* the cache map a file holds: its document, or the empty map when the file
\* is absent or corrupt
StoredCache(file) == IF file.st = "ok" THEN file.data ELSE <<>>

\* every entry of the map a is in the map b, with the same value
EntriesKept(a, b) ==
    \A key \in DOMAIN a : key \in DOMAIN b /\ b[key] = a[key]

\* the write of the cache file, in the last call, failed with an I/O error
\* after a miss answered with a result
FailedCacheWrite == MissWithResult /\ lCall[1].write # "ok"

C26_OtherEntriesKept ==
    (lCall # None /\ lCall[1].write = "ok") =>
        EntriesKept(StoredCache(lCall[1].before), StoredCache(locFile))

\* the last call is the resolve that follows, with the same descriptor, a
\* resolve whose geocoding answer was empty
AfterEmptyAnswer == lCall # None /\ lCall[1].after_empty

\* C27 as stated: a resolve whose geocoding answer is empty leaves the cache
\* map as it was, and the next resolve with the same descriptor issues a
\* geocoding request again.
C27_EmptyAnswerStoresNothing ==
    /\ EmptyAnswer =>
           StoredCache(locFile) = StoredCache(lCall[1].before)
    /\ AfterEmptyAnswer => lCall[1].requests = 1

\* C27 as amended: a resolve whose geocoding answer is empty leaves the
\* cache map as it was, and the next resolve with the same descriptor issues
\* a geocoding request again unless the cache file holds an entry for the
\* descriptor (one that the resolve with the empty answer could not read).
C27_EmptyAnswerStoresNothingNew ==
    /\ EmptyAnswer =>
           StoredCache(locFile) = StoredCache(lCall[1].before)
    /\ (AfterEmptyAnswer
        /\ lCall[1].key[1] \notin DOMAIN StoredCache(lCall[1].before)) =>
           lCall[1].requests = 1

\* C27 witness: after an empty answer that left a non-empty cache map as it
\* was, the resolve of the same descriptor issued a request and stored its
\* result
C27_Witness ==
    /\ AfterEmptyAnswer
    /\ lCall[1].requests = 1
    /\ lCall[1].before.st = "ok"
    /\ lCall[1].before.data # <<>>
    /\ MissWithResult
    /\ lCall[1].key[1] \in DOMAIN StoredCache(locFile)

\* the last call failed because its descriptor names neither a postal code
\* nor a city
ConfigurationErrorResolve ==
    lCall # None /\ lCall[1].exc = "ValueError"

\* C28: a resolve that fails with a configuration error leaves the cache
\* file as it was, existence and content, and issues no geocoding request.
C28_ConfigurationErrorLeavesFile ==
    ConfigurationErrorResolve =>
        /\ locFile = lCall[1].before
        /\ lCall[1].requests = 0

(***************************************************************************)
(* Claims about the weather pipeline (checked under SpecPipe).             *)
(***************************************************************************)
\* the provider fetch of the last run failed with a transport or parse error
FetchFailed ==
    /\ mRun # None
    /\ mRun[1].stage = "fetch"
    /\ mRun[1].exc \in {"RequestException", "JSONDecodeError"}

\* C7: when the provider fetch of a run fails and no cached payload exists,
\* the run still ends with a result (the fallback dataset, marked degraded).
C7_FetchFailureYieldsFallback ==
    (FetchFailed /\ mRun[1].raw_before = "absent") => mRun[1].result # None

\* what normalising the payload held by the raw cache file yields
FormattedFromCache ==
    formatted_weather_data(rawFile.data,
                           weather_format_weather_data(rawFile.data).hourly)

\* C8: when a fresh weather cache entry is present at the start of a run
\* that reaches the fetch step, the run issues no weather request and its
\* result is the data of that entry, not a fallback.
C8_FreshCacheSkipsRequest ==
    (/\ mRun # None
     /\ mRun[1].raw_before = "ok" /\ mRun[1].fresh_before
     /\ mRun[1].stage # "resolve")
    => /\ mRun[1].wx_requests = 0
       /\ weather_format_weather_data(rawFile.data).res = "ok"
             => mRun[1].result = Some(FormattedFromCache)

\* C9: when the provider fetch of a run fails and a cached payload exists,
\* the run normalises that payload and ends with its formatted data.
C9_FetchFailureReusesCache ==
    (/\ FetchFailed
     /\ mRun[1].raw_before = "ok"
     /\ weather_format_weather_data(rawFile.data).res = "ok")
    => mRun[1].result = Some(FormattedFromCache)

\* the run that just ended stopped at the location descriptor: get_location_data
\* raised the ValueError of create_cache_key
ConfigurationErrorRun ==
    /\ mRun # None
    /\ mRun[1].stage = "resolve"
    /\ mRun[1].exc = "ValueError"

\* C13: when resolving the location descriptor fails with a configuration
\* error, the run stops there: it issues no weather request, produces no
\* formatted data (normalised or fallback), and leaves both weather cache
\* files as they were.
C13_ConfigurationErrorStopsRun ==
    [][ConfigurationErrorRun' =>
         /\ mRun'[1].wx_requests = 0
         /\ mRun'[1].result = None
         /\ UNCHANGED <<rawFile, fmtFile>>]_vars

\* C13 witness: a run ended on the configuration error although weather
\* cache files of an earlier run exist
C13_Witness ==
    /\ ConfigurationErrorRun
    /\ rawFile.st = "ok"
    /\ fmtFile.st = "ok"

\* the run that just ended fetched a payload and normalised it
FetchedAndNormalized ==
    /\ mRun # None
    /\ mRun[1].wx_requests = 1
    /\ mRun[1].result # None

\* C25: the units recorded in the normalised output of a payload that
\* get_weather_data returned are the scalars sent as unit selectors in the
\* request.
C25_UnitsAreTheRequestSelectors ==
    FetchedAndNormalized =>
        /\ mRun[1].result[1].temperature_unit
              = weather_params.temperature_unit
        /\ mRun[1].result[1].wind_speed_unit
              = weather_params.wind_speed_unit
        /\ mRun[1].result[1].precipitation_unit
              = weather_params.precipitation_unit

\* C25 witness: a run fetched a payload, normalised it and wrote the
\* formatted data with its units to the formatted cache file
C25_Witness ==
    /\ FetchedAndNormalized
    /\ mRun[1].stage = "done"
    /\ fmtFile = FileOk(mRun[1].result[1])

(***************************************************************************)
(* Claims about the display manager (checked under SpecDisplay).           *)
(***************************************************************************)
\* the last call was update_display
WasUpdateDisplay == dCall # None /\ dCall[1].op = "update_display"

\* the age of the cached entry when the last call began
AgeBefore == dCall[1].at - dCall[1].last_before[1]

\* C10: an entry is fresh exactly when its age is below the time-to-live,
\* and update_display refetches exactly when the entry is absent or not
\* fresh; so it refetches at age = ttl.
C10_RefetchUnlessAgeBelowTtl ==
    WasUpdateDisplay =>
        (dCall[1].fetched <=>
            (dCall[1].last_before = None \/ ~(AgeBefore < weather_api_interval)))

\* the last call was update_display_with_time
WasUpdateDisplayWithTime ==
    dCall # None /\ dCall[1].op = "update_display_with_time"

\* C29: in any interleaving of update_display and update_display_with_time,
\* weather_cache is set exactly when last_weather_update is set;
\* update_display_with_time leaves last_weather_update as it was and stores
\* no weather_cache where there was none; after an update_display that
\* returns, weather_cache is set and last_weather_update is at most the
\* 'now' of that call.
C29_CacheSetIffStamped ==
    /\ (weather_cache = None) <=> (last_weather_update = None)
    /\ WasUpdateDisplayWithTime =>
          /\ last_weather_update = dCall[1].last_before
          /\ dCall[1].last_before = None => weather_cache = None
    /\ (WasUpdateDisplay /\ dCall[1].exc = "none") =>
          /\ weather_cache # None
          /\ last_weather_update # None
          /\ last_weather_update[1] <= dCall[1].at

\* C29 witness: update_display_with_time ran on a cache that an earlier
\* update_display had filled, some seconds after it was filled
C29_Witness ==
    /\ WasUpdateDisplayWithTime
    /\ weather_cache # None
    /\ last_weather_update # None
    /\ last_weather_update[1] < dCall[1].at

(***************************************************************************)
(* Claims about run_scheduler (checked under SpecSched).                   *)
(***************************************************************************)
\* C11: no failure inside a scheduled run ever terminates the scheduler
\* loop: whatever the runs did, run_scheduler has not been left by an
\* exception of a job.
C11_SchedulerSurvivesFailedRuns == scheduler # "crashed"

(***************************************************************************)
(* Claims about a cache-file write (checked under SpecWrite).              *)
(***************************************************************************)
\* C12: every write of a cache file is atomic: when the process is
\* interrupted during the write, the file holds either the complete
\* previous content or the complete new content.
C12_InterruptedWriteLeavesOldOrNew ==
    wPc = "killed" => wFile \in {wPrev, Some(wNew.document)}

(***************************************************************************)
(* Claims about the fetch operations (checked under SpecFetch).            *)
(***************************************************************************)
\* the last call was a fetch (get_weather_data or get_air_quality_data)
\* whose provider request succeeded
ProviderFetchSucceeded ==
    /\ fCall # None
    /\ fCall[1].op \in {"get_weather_data", "get_air_quality_data"}
    /\ fCall[1].requests = 1
    /\ fCall[1].body # None

\* the payload a fetch hands on: the provider's body with the request
\* context added
FetchedPayload == WithRequestContext(fCall[1].body[1], fCall[1].location[1])

\* C14: for each kind in {weather, air_quality}, a provider fetch that
\* succeeds is followed, before the fetch operation returns, by a put of the
\* new payload into the cache (the file holds it when the write goes
\* through), and the payload is returned to the caller.
C14_SuccessfulFetchIsCachedAndReturned ==
    ProviderFetchSucceeded =>
        /\ fCall[1].exc = "none"
        /\ fCall[1].ret = Some(FetchedPayload)
        /\ fCall[1].write = "ok" => rawFile = FileOk(FetchedPayload)

\* the last call was get_weather_data with a location that has coordinates
WeatherFetchWithCoordinates ==
    /\ fCall # None
    /\ fCall[1].op = "get_weather_data"
    /\ fCall[1].location = Some(LocDenver)

\* the network attempt of the last call failed with a transport or parse
\* error
AttemptFailed == fCall[1].requests >= 1 /\ fCall[1].body = None

\* C24: a get_weather_data call with valid coordinates makes exactly one
\* network attempt, whatever the raw cache holds; when the attempt fails
\* with a transport or parse error the call raises that error, returns
\* nothing, and leaves the raw weather cache file as it was.
C24_OneAttemptNoRetry ==
    [][WeatherFetchWithCoordinates' =>
         /\ fCall'[1].requests = 1
         /\ AttemptFailed' =>
               /\ fCall'[1].exc \in {"RequestException", "JSONDecodeError"}
               /\ fCall'[1].ret = None
               /\ UNCHANGED rawFile]_vars

\* C24 witness: the one attempt failed on a parse error while the raw cache
\* held a payload, and the call raised
C24_Witness ==
    /\ WeatherFetchWithCoordinates
    /\ fCall[1].requests = 1
    /\ AttemptFailed
    /\ fCall[1].exc = "JSONDecodeError"
    /\ rawFile.st = "ok"

\* the cache documents of a kind: location_coordinates_cache.json for
\* location, weather_cache_raw.json and weather_cache_formatted.json for
\* weather; air_quality.py writes none of its own
OthersUnchanged(kind) ==
    /\ kind # "location" => UNCHANGED locFile
    /\ kind # "weather" => UNCHANGED <<rawFile, fmtFile>>

Applied(fn) == aIn.fn = fn /\ aOut # None

\* four times the distance on the circle between d degrees and the centre
\* of sector k (22.5 * k degrees)
SectorDistance4(d, k) ==
    LET diff == (4 * (d % 360) - 90 * k) % 1440
    IN  IF diff > 720 THEN 1440 - diff ELSE diff

\* C18: _get_wind_direction maps whole degrees d to the label of the
\* sector round(d / 22.5) mod 16, the one of the 16 whose centre is nearest
\* to d: compass(d) = compass(d mod 360), compass(354) = "N",
\* compass(11) = "N" and compass(360) = compass(0).
C18_CompassIsNearestSector ==
    Applied("_get_wind_direction") =>
        LET d == aIn.degrees
            label == aOut[1].ret[1]
        IN  /\ aOut[1].exc = "none"
            /\ \E k \in 0..15 :
                   /\ label = directions[k + 1]
                   /\ SectorDistance4(d, k) < 45
            /\ label = get_wind_direction(d % 360)
            /\ d \in {354, 11, 360, 0} => label = "N"

\* C18 witness: 354 degrees was mapped to "N"
C18_Witness ==
    /\ Applied("_get_wind_direction")
    /\ aIn.degrees = 354
    /\ aOut[1].ret = Some("N")

\* C19: _get_weather_condition returns ("Unknown", "?") for every integer
\* code outside its table and never raises on one; for code 0 it returns
\* the clear-sky pair.
C19_UnknownCodeGivesSentinel ==
    Applied("_get_weather_condition") =>
        /\ aOut[1].exc = "none"
        /\ aIn.code \notin DOMAIN weather_codes
              => aOut[1].ret = Some(<<"Unknown", "?">>)
        /\ aIn.code = 0 => aOut[1].ret = Some(<<"Clear", "SUN">>)

\* C19 witness: a code outside the table was looked up
C19_Witness ==
    /\ Applied("_get_weather_condition")
    /\ aIn.code = 4
    /\ aOut[1].ret = Some(<<"Unknown", "?">>)

\* the hourly object drawn carries none of the pollen series
NoPollenSeries == DOMAIN aIn.hourly_pollen \cap PollenSeries = {}

\* C20: when the air-quality payload carries no pollen series at all (the
\* hourly object is empty, or holds other series only),
\* _process_pollen_data returns {tree: 2, grass: 5, ragweed: 1} and does
\* not fail.
C20_NoPollenSeriesGivesDefaults ==
    (Applied("_process_pollen_data") /\ NoPollenSeries) =>
        /\ aOut[1].exc = "none"
        /\ aOut[1].ret = Some([tree |-> 2, grass |-> 5, ragweed |-> 1])

\* C20 witness: the helper was applied to an hourly object that holds
\* another series and no pollen series
C20_Witness ==
    /\ Applied("_process_pollen_data")
    /\ NoPollenSeries
    /\ aIn.hourly_pollen # <<>>
    /\ aOut[1].ret = Some([tree |-> 2, grass |-> 5, ragweed |-> 1])

\* the temperature of the normalised current point, when one was produced:
\* Some(number), or None
CurrentTemperature ==
    IF aIn.fn = "format_weather_data" THEN aOut[1].ret[1].current.temperature
    ELSE Some(aOut[1].ret[1].current_temp)

\* the name of the temperature field in the payload drawn
TemperatureField ==
    IF aIn.fn = "format_weather_data" THEN "apparent_temperature"
    ELSE "temperature_2m"

\* a daily time array was drawn, so that the daily part does not fail
HasDailyTimes == aIn.daily_time # None

\* the payload drawn carries the current timestamp, where the function
\* parses one
HasCurrentTime ==
    aIn.fn = "format_weather_data" => "time" \in DOMAIN aIn.current

\* the field of the result that reports a series of the payload
PollenField ==
    ("alder_pollen" :> "tree") @@ ("grass_pollen" :> "grass")
    @@ ("ragweed_pollen" :> "ragweed")

\* C30: for each of the three pollen series the payload holds,
\* _process_pollen_data reports the provider's value at the current hour,
\* a measured 0 included.
C30_PresentReadingIsReported ==
    (Applied("_process_pollen_data") /\ aOut[1].exc = "none") =>
        \A name \in PollenSeries \cap DOMAIN aIn.hourly_pollen :
            aOut[1].ret[1][PollenField[name]]
                = aIn.hourly_pollen[name][aIn.current_hour + 1]

\* C21: normalising the current point never fails because a scalar field is
\* absent from the payload's current object: the normalised current point
\* is produced, and an absent temperature is reported as 0.
C21_AbsentFieldsGetDefaults ==
    ((Applied("format_weather_data") \/ Applied("_process_weather_data"))
     /\ HasDailyTimes /\ HasCurrentTime) =>
        /\ aOut[1].exc = "none"
        /\ TemperatureField \notin DOMAIN aIn.current
              => CurrentTemperature = Some(0)

\* the daily sequence of the normalised output
DailySequence ==
    IF aIn.fn = "format_weather_data" THEN aOut[1].ret[1].daily
    ELSE aOut[1].ret[1].daily_forecast

\* C22: the normalised daily sequence holds every daily entry of the
\* payload, in provider order: it is as long as the payload's daily time
\* array and its k-th entry is the array's k-th.
C22_DailyKeepsEveryEntry ==
    ((Applied("format_weather_data") \/ Applied("_process_weather_data"))
     /\ HasDailyTimes /\ aOut[1].exc = "none") =>
        /\ Len(DailySequence) = Len(aIn.daily_time[1])
        /\ \A k \in 1..Len(DailySequence) : DailySequence[k].index = k

====
